---- MODULE Spec2Model ----
(***************************************************************************)
(* State-machine model of the apply paths of the migration tool's UI:      *)
(* TransferNames (rename clusters), AssignFaces and CreateFaces, together  *)
(* with the applied-changes part of MatchingContext and the progress       *)
(* modal.  One action is one synchronous run of a handler: from a click or *)
(* from the resumption of an await up to the next await (or the return).   *)
(***************************************************************************)
EXTENDS Integers, Sequences, FiniteSets, TLC

\* ------------------------------------------------------------------ bounds
NumPersons == 2
NumClusters == 2
MaxMatches == 3
NumFaces == 2
MaxTotalFaces == 3
MaxCreateFaces == 2
MaxSingles == 1
NumRawPairs == 2
MaxRaw == 5
NumResults == 1
MaxFetches == 2
MaxRuns == 2
MaxFaceCount == 2
MaxClusterFaces == 21
RectDen == 4
MaxImageSize == 3
MaxViewerFaces == 4
MaxStartIndex == 2

Persons == 1..NumPersons
Clusters == 1..NumClusters
\* immich_cluster_name: string | null; null is 0, the name of source person p
\* is p, PreName is a name a cluster carried before the migration
NoName == 0
PreName == NumPersons + 1
\* applyingId: useState<... | null>(null)
NoId == 0

Tabs == {"transfer", "assign", "create"}
FilterModes == {"applicable", "all", "already_named", "applied"}

VARIABLES
    tab,              \* App.activeTab: the mounted apply component
    netDown,          \* transport to the backend has collapsed for good
    clusterName,      \* target store: name of every cluster
    created,          \* target store: <<person, face>> created by /create-faces/apply
    clusterMatches,   \* MatchingContext.clusterMatches (PersonMatch[])
    previews,         \* unclusteredPreviews / CreateFaces.previews
    renamedClusters,  \* appliedChanges.renamedClusters
    appliedPeople,    \* appliedChanges.assignedPeople / CreateFaces.appliedIds
    filterMode,
    selectedIds,
    faceSelections,   \* person -> selected faces; Unset when no entry
    applyingId,
    applyError,       \* an error message is shown (applyError !== null)
    bulkApplying,
    cancelRef,
    showProgress,
    progressItems,
    progressIndex,
    matchesToApply,   \* the list captured by the running applySelected
    faceIdx,          \* inner loop position of applySelected (faces)
    successCount,     \* inner loop success counter
    req,              \* the awaited request of applySelected
    singles,          \* requests awaited by applySingle calls
    sent,             \* history: requests issued per item of this batch
    resolved,         \* history: requests settled per item of this batch
    successReports,   \* history: renames reported as success, per cluster
    transportFailedAt,\* history: first item lost to the collapsed transport
    cancelledAt,      \* history: item in flight when cancel was raised
    flagAtStart,      \* history: the batch just started found cancelRef.current set
    rawMatches,       \* MatchingContext.rawMatches (RawFaceMatch[])
    minIoU,           \* active thresholds, in hundredths
    maxCenterDist,
    pendingMinIoU,    \* slider values, in hundredths
    pendingMaxCenterDist,
    thresholdsDirty,
    storedThresholds, \* localStorage: the saved thresholds, NoStored when absent
    loading,
    algorithmRunning,
    error,            \* an error message is set (error !== null)
    lastRun,          \* number of completed initial runs; 0 is null
    mergedPeople,     \* appliedChanges.mergedPeople
    fixedClusters,    \* appliedChanges.fixedClusters
    mergeCandidates,  \* ms_person_id of the merge candidates
    validationIssues, \* immich_cluster_id of the validation issues
    stats,
    fetches,          \* the fetchAllData calls awaiting runFullAnalysis
    lastFetch,        \* history: how the last settled fetchAllData ended
    issue,            \* a ClusterIssue of the validation: counts, total, severity
    face,             \* an UnrecognizedFacePreview handed to rectToPixels
    pixels,           \* the pixel rectangle of the create-face item
    viewer            \* FacePhotoViewer: loading, faces, currentIndex, sortBy

vars == <<tab, netDown, clusterName, created, clusterMatches, previews, renamedClusters,
          appliedPeople, filterMode, selectedIds, faceSelections, applyingId,
          applyError, bulkApplying, cancelRef, showProgress, progressItems, progressIndex,
          matchesToApply, faceIdx, successCount, req, singles, sent, resolved,
          successReports, transportFailedAt, cancelledAt, flagAtStart, rawMatches, minIoU,
          maxCenterDist, pendingMinIoU, pendingMaxCenterDist, thresholdsDirty,
          storedThresholds, loading, algorithmRunning, error, lastRun, mergedPeople,
          fixedClusters, mergeCandidates, validationIssues, stats, fetches, lastFetch, issue,
          face, pixels, viewer>>

\* the parts outside the apply paths and the context
rectVars == <<face, pixels>>

viewerVars == <<viewer>>

viewVars == <<issue, rectVars, viewerVars>>

\* the thresholds and raw matches of MatchingContext
thresholdVars == <<rawMatches, minIoU, maxCenterDist, pendingMinIoU, pendingMaxCenterDist,
                   thresholdsDirty>>

\* the run state and the merge / fix part of MatchingContext
runVars == <<storedThresholds, loading, algorithmRunning, error, lastRun, mergedPeople,
             fixedClusters, mergeCandidates, validationIssues, stats, fetches, lastFetch>>

ctxVars == <<tab, clusterMatches, previews, thresholdVars, runVars, viewVars>>

\* the state of the apply components that the context does not touch
componentVars == <<netDown, clusterName, created, faceSelections, applyingId, applyError,
                   bulkApplying, cancelRef, showProgress, progressItems, progressIndex,
                   matchesToApply, faceIdx, successCount, req, singles, sent, resolved,
                   successReports, transportFailedAt, cancelledAt, flagAtStart, viewVars>>

\* everything the apply components and the target store hold
applyVars == <<tab, netDown, clusterName, created, clusterMatches, previews, renamedClusters,
               appliedPeople, filterMode, selectedIds, faceSelections, applyingId,
               applyError, bulkApplying, cancelRef, showProgress, progressItems,
               progressIndex, matchesToApply, faceIdx, successCount, req, singles, sent,
               resolved, successReports, transportFailedAt, cancelledAt, flagAtStart>>
batchHist == <<sent, resolved, transportFailedAt, cancelledAt, flagAtStart>>
loopVars == <<progressItems, progressIndex, matchesToApply, faceIdx, successCount, req>>

\* ----------------------------------------------------------------- helpers
Unset == {0}
Faces == 1..NumFaces

PairAt(k) == [ms_person_id |-> ((k - 1) \div NumClusters) + 1,
              immich_cluster_id |-> ((k - 1) % NumClusters) + 1]

AllPairs == [k \in 1..(NumPersons * NumClusters) |-> PairAt(k)]

\* the PersonMatch list the analysis returns for the matched pairs
BundleOf(matched, names) ==
    LET sel == SelectSeq(AllPairs, LAMBDA m: <<m.ms_person_id, m.immich_cluster_id>> \in matched)
    IN  [k \in 1..Len(sel) |->
            [ms_person_id |-> sel[k].ms_person_id,
             immich_cluster_id |-> sel[k].immich_cluster_id,
             immich_cluster_name |-> names[sel[k].immich_cluster_id]]]

\* the preview list of persons 1..Len(fc), person p with fc[p] matched faces
PreviewsOf(fc) == [p \in 1..Len(fc) |-> [ms_person_id |-> p, faces |-> [k \in 1..fc[p] |-> k]]]

RECURSIVE SumSeq(_)
SumSeq(q) == IF Len(q) = 0 THEN 0 ELSE Head(q) + SumSeq(Tail(q))

\* face counts per person of the assign previews (unclusteredPreviews of the
\* analysis) and of the create previews (previewUnrecognizedFaces)
FaceCounts == {fc \in UNION {[1..n -> Faces] : n \in Persons} : SumSeq(fc) <= MaxTotalFaces}

CreateFaceCounts == {fc \in UNION {[1..n -> Faces] : n \in Persons} : SumSeq(fc) <= MaxCreateFaces}

\* variants of the status update: without the idx === i test, and mapping
\* over the initial (all pending) list instead of prev
SetStatusAll(items, i, s) == [k \in 1..Len(items) |-> [items[k] EXCEPT !.status = s]]

SetStatusStale(items, i, s) ==
    [k \in 1..Len(items) |-> [items[k] EXCEPT !.status = IF k = i THEN s ELSE "pending"]]

\* setProgressItems(prev => prev.map((item, idx) => idx === i ? {...item, status: s} : item))
SetStatus(items, i, s) == [items EXCEPT ![i].status = s]

Bump(f, i) == [f EXCEPT ![i] = @ + 1]

CountStatus(items, s) == Cardinality({k \in 1..Len(items) : items[k].status = s})

\* --------------------------------------------------------- TransferNames
\* a row can be applied: not applied in this run and unnamed in the bundle
canApply(m) == m.immich_cluster_id \notin renamedClusters /\ m.immich_cluster_name = NoName

InFilterMode(m) ==
    CASE filterMode = "applicable" -> canApply(m)
      [] filterMode = "already_named" -> m.immich_cluster_name # NoName
      [] filterMode = "applied" -> m.immich_cluster_id \in renamedClusters
      [] OTHER -> TRUE

\* the rows of the table, in the order of the list (the sort is stable and
\* the bundle is taken in the order of the active sort key)
filteredMatches == SelectSeq(clusterMatches, InFilterMode)

\* the list applySelected captures when it is clicked
SelectedApplicable(m) == m.immich_cluster_id \in selectedIds /\ canApply(m)

matchesToApplyNow == SelectSeq(filteredMatches, SelectedApplicable)

PendingItems(list) == [k \in 1..Len(list) |-> [id |-> list[k].id, status |-> "pending"]]

RenameItems(list) == [k \in 1..Len(list) |->
    [id |-> list[k].immich_cluster_id, ms_person_id |-> list[k].ms_person_id, faces |-> <<>>]]

\* variant: applySelected leaves the flag as the batch before left it
FlagKept == cancelRef

\* cancelRef.current = false, the first statement after the empty-list return
FlagAtBatchStart == FALSE

\* for (let i = 0; i < n; i++) { if (cancelRef.current) break; ... }
ContinueLoopNoCancel(i, n) == i < n

ContinueLoop(i, n) == i < n /\ ~cancelRef

\* variant: a throw leaves the loop instead of being caught inside it
LoopAbortsOnThrow(outcome, i, n) == outcome # "throw" /\ ContinueLoop(i, n)

\* the try / catch lies inside the loop body: whatever the outcome of the
\* awaited call, control reaches the next iteration
LoopGoesOn(outcome, i, n) == ContinueLoop(i, n)

\* result.success_count > 0
ReportedSuccessAlways(outcome) == outcome \in {"success", "failed"}

ReportedSuccess(outcome) == outcome = "success"

\* POST /apply with one match, dry_run false: the backend renames the cluster
\* unless it is already named; the call may also fail or the transport throw
RenameOutcomes(c) ==
    IF netDown THEN {"throw"}
    ELSE IF clusterName[c] = NoName THEN {"success", "failed", "throw"}
    ELSE {"failed", "throw"}

ServerRename(c, p, outcome) ==
    IF outcome = "success" THEN [clusterName EXCEPT ![c] = p] ELSE clusterName

markClusterRenamed(c) == renamedClusters \cup {c}

toggleSelection(id) ==
    /\ ~showProgress
    /\ \/ /\ tab = "transfer"
          /\ \E k \in 1..Len(filteredMatches) :
                filteredMatches[k].immich_cluster_id = id /\ canApply(filteredMatches[k])
       \/ /\ tab # "transfer"
          /\ \E k \in 1..Len(previews) : previews[k].ms_person_id = id
          /\ filterMode # "applied" /\ id \notin appliedPeople
    /\ selectedIds' = IF id \in selectedIds THEN selectedIds \ {id} ELSE selectedIds \cup {id}
    /\ UNCHANGED <<ctxVars, created, batchHist, loopVars, netDown, clusterName, renamedClusters,
                   appliedPeople, filterMode, faceSelections, applyingId, applyError,
                   bulkApplying, cancelRef, showProgress, singles, successReports>>

TransferApplySelected ==
    /\ tab = "transfer" /\ ~showProgress /\ ~bulkApplying /\ selectedIds # {}
    /\ Len(matchesToApplyNow) > 0
    /\ matchesToApply' = RenameItems(matchesToApplyNow)
    /\ cancelRef' = FlagAtBatchStart
    /\ progressItems' = SetStatus(PendingItems(matchesToApply'), 1, "processing")
    /\ progressIndex' = 1
    /\ showProgress' = TRUE
    /\ bulkApplying' = TRUE
    /\ applyError' = FALSE
    /\ req' = "sent"
    /\ sent' = Bump([k \in 1..Len(matchesToApply') |-> 0], 1)
    /\ resolved' = [k \in 1..Len(matchesToApply') |-> 0]
    /\ transportFailedAt' = 0
    /\ cancelledAt' = 0
    /\ flagAtStart' = (cancelRef /\ bulkApplying')
    /\ UNCHANGED <<ctxVars, created, netDown, clusterName, renamedClusters, appliedPeople, filterMode,
                   selectedIds, faceSelections, applyingId, faceIdx, successCount, singles,
                   successReports>>

\* the await of applyMatches settles: the rest of iteration i, then the loop
\* up to the next await or to setBulkApplying(false)
TransferResume(outcome) ==
    /\ tab = "transfer" /\ req = "sent"
    /\ LET i == progressIndex
           c == matchesToApply[i].id
           ok == ReportedSuccess(outcome)
           items1 == SetStatus(progressItems, i, IF ok THEN "success" ELSE "error")
       IN  /\ outcome \in RenameOutcomes(c)
           /\ clusterName' = ServerRename(c, matchesToApply[i].ms_person_id, outcome)
           /\ renamedClusters' = IF ok THEN markClusterRenamed(c) ELSE renamedClusters
           /\ selectedIds' = IF ok THEN selectedIds \ {c} ELSE selectedIds
           /\ successReports' = IF ok THEN Bump(successReports, c) ELSE successReports
           /\ resolved' = Bump(resolved, i)
           /\ transportFailedAt' = IF outcome = "throw" /\ netDown /\ transportFailedAt = 0
                                   THEN i ELSE transportFailedAt
           /\ IF LoopGoesOn(outcome, i, Len(matchesToApply))
              THEN /\ progressIndex' = i + 1
                   /\ progressItems' = SetStatus(items1, i + 1, "processing")
                   /\ req' = "sent"
                   /\ sent' = Bump(sent, i + 1)
                   /\ bulkApplying' = bulkApplying
              ELSE /\ progressIndex' = i
                   /\ progressItems' = items1
                   /\ req' = "none"
                   /\ sent' = sent
                   /\ bulkApplying' = FALSE
    /\ flagAtStart' = FALSE
    /\ UNCHANGED <<ctxVars, created, netDown, appliedPeople, filterMode, faceSelections, applyingId,
                   applyError, cancelRef, showProgress, matchesToApply, faceIdx, successCount,
                   singles, cancelledAt>>

TransferApplySingle(k) ==
    /\ tab = "transfer" /\ ~showProgress
    /\ k \in 1..Len(filteredMatches)
    /\ canApply(filteredMatches[k])
    /\ applyingId # filteredMatches[k].immich_cluster_id
    /\ Len(singles) < MaxSingles
    /\ applyingId' = filteredMatches[k].immich_cluster_id
    /\ applyError' = FALSE
    /\ singles' = Append(singles, [id |-> filteredMatches[k].immich_cluster_id,
                                   ms_person_id |-> filteredMatches[k].ms_person_id])
    /\ UNCHANGED <<ctxVars, created, batchHist, loopVars, netDown, clusterName, renamedClusters,
                   appliedPeople, filterMode, selectedIds, faceSelections, bulkApplying,
                   cancelRef, showProgress, successReports>>

RemoveAt(s, k) == [j \in 1..(Len(s) - 1) |-> IF j < k THEN s[j] ELSE s[j + 1]]

TransferSingleResume(k, outcome) ==
    /\ tab = "transfer"
    /\ k \in 1..Len(singles)
    /\ LET c == singles[k].id
           ok == ReportedSuccess(outcome)
       IN  /\ outcome \in RenameOutcomes(c)
           /\ clusterName' = ServerRename(c, singles[k].ms_person_id, outcome)
           /\ renamedClusters' = IF ok THEN markClusterRenamed(c) ELSE renamedClusters
           /\ selectedIds' = IF ok THEN selectedIds \ {c} ELSE selectedIds
           /\ applyError' = IF ok THEN applyError ELSE TRUE
           /\ successReports' = IF ok THEN Bump(successReports, c) ELSE successReports
    /\ applyingId' = NoId
    /\ singles' = RemoveAt(singles, k)
    /\ UNCHANGED <<ctxVars, created, batchHist, loopVars, netDown, appliedPeople, filterMode,
                   faceSelections, bulkApplying, cancelRef, showProgress>>

\* ------------------------------------------- AssignFaces and CreateFaces
isApplied(pv) == pv.ms_person_id \in appliedPeople

InPreviewFilter(pv) == IF filterMode = "applied" THEN isApplied(pv) ELSE ~isApplied(pv)

filteredPreviews == SelectSeq(previews, InPreviewFilter)

\* defaults to all faces when the person has no entry in faceSelections
getSelectedFaces(pv) ==
    IF faceSelections[pv.ms_person_id] = Unset
    THEN {pv.faces[k] : k \in 1..Len(pv.faces)}
    ELSE faceSelections[pv.ms_person_id]

facesToApply(pv) == SelectSeq(pv.faces, LAMBDA f: f \in getSelectedFaces(pv))

SelectedUnapplied(pv) == pv.ms_person_id \in selectedIds /\ ~isApplied(pv)

previewsToApplyNow == SelectSeq(filteredPreviews, SelectedUnapplied)

\* the closure of applySelected: the persons and, per person, the faces the
\* loop will filter out of faceSelections as it was when the click happened
PersonItems(list) == [k \in 1..Len(list) |->
    [id |-> list[k].ms_person_id, ms_person_id |-> list[k].ms_person_id,
     faces |-> facesToApply(list[k])]]

\* variant: a person without selected faces is skipped without a status
RECURSIVE PersonLoopNoMark(_, _, _)
PersonLoopNoMark(i, items, list) ==
    IF i > Len(list) THEN [items |-> items, idx |-> 0]
    ELSE IF Len(list[i].faces) = 0
         THEN PersonLoopNoMark(i + 1, items, list)
         ELSE [items |-> SetStatus(items, i, "processing"), idx |-> i]

\* the person loop from index i up to the first person with a face to send:
\* persons without selected faces are marked success and skipped
RECURSIVE PersonLoop(_, _, _)
PersonLoop(i, items, list) ==
    IF i > Len(list) THEN [items |-> items, idx |-> 0]
    ELSE IF Len(list[i].faces) = 0
         THEN PersonLoop(i + 1, SetStatus(items, i, "success"), list)
         ELSE [items |-> SetStatus(items, i, "processing"), idx |-> i]

\* POST /apply/unclustered or /create-faces/apply with one face
FaceOutcomes == IF netDown THEN {"throw"} ELSE {"success", "failed", "throw"}

\* result.faces_assigned_count > 0, respectively result.success
FaceSucceeded(outcome) == outcome = "success"

\* the status a person ends in, from successCount and facesToApply.length
PersonStatus(sc, n) == IF sc > 0 THEN "success" ELSE "error"

PeopleApplySelected ==
    /\ tab # "transfer" /\ ~showProgress /\ ~bulkApplying /\ selectedIds # {}
    /\ Len(previewsToApplyNow) > 0
    /\ matchesToApply' = PersonItems(previewsToApplyNow)
    /\ cancelRef' = FlagAtBatchStart
    /\ LET r == PersonLoop(1, PendingItems(matchesToApply'), matchesToApply')
       IN  /\ progressItems' = r.items
           /\ progressIndex' = IF r.idx = 0 THEN 1 ELSE r.idx
           /\ bulkApplying' = (r.idx # 0)
           /\ req' = IF r.idx = 0 THEN "none" ELSE "sent"
           /\ sent' = IF r.idx = 0 THEN [k \in 1..Len(matchesToApply') |-> 0]
                      ELSE Bump([k \in 1..Len(matchesToApply') |-> 0], r.idx)
    /\ faceIdx' = 1
    /\ successCount' = 0
    /\ showProgress' = TRUE
    /\ applyError' = FALSE
    /\ resolved' = [k \in 1..Len(matchesToApply') |-> 0]
    /\ transportFailedAt' = 0
    /\ cancelledAt' = 0
    /\ flagAtStart' = (cancelRef /\ bulkApplying')
    /\ UNCHANGED <<ctxVars, created, netDown, clusterName, renamedClusters, appliedPeople, filterMode,
                   selectedIds, faceSelections, applyingId, singles, successReports>>

\* the await of applyUnclusteredFaces / createFaces settles: the rest of the
\* face iteration, then the loops up to the next await or to the return
PeopleResume(outcome) ==
    /\ tab # "transfer" /\ req = "sent"
    /\ outcome \in FaceOutcomes
    /\ LET i == progressIndex
           p == matchesToApply[i].ms_person_id
           n == Len(matchesToApply[i].faces)
           sc == IF FaceSucceeded(outcome) THEN successCount + 1 ELSE successCount
           items1 == SetStatus(progressItems, i, PersonStatus(sc, n))
           r == IF cancelRef THEN [items |-> items1, idx |-> 0]
                ELSE PersonLoop(i + 1, items1, matchesToApply)
       IN  /\ resolved' = Bump(resolved, i)
           /\ transportFailedAt' = IF outcome = "throw" /\ netDown /\ transportFailedAt = 0
                                   THEN i ELSE transportFailedAt
           /\ created' = IF tab = "create" /\ FaceSucceeded(outcome)
                         THEN created \cup {<<p, matchesToApply[i].faces[faceIdx]>>}
                         ELSE created
           /\ IF LoopGoesOn(outcome, faceIdx, n)
              THEN /\ faceIdx' = faceIdx + 1
                   /\ successCount' = sc
                   /\ req' = "sent"
                   /\ sent' = Bump(sent, i)
                   /\ UNCHANGED <<progressItems, progressIndex, bulkApplying, appliedPeople,
                                  selectedIds, faceSelections>>
              ELSE /\ appliedPeople' = IF sc > 0 THEN appliedPeople \cup {p} ELSE appliedPeople
                   /\ selectedIds' = IF sc > 0 THEN selectedIds \ {p} ELSE selectedIds
                   /\ faceSelections' = IF sc > 0 THEN [faceSelections EXCEPT ![p] = Unset]
                                        ELSE faceSelections
                   /\ progressItems' = r.items
                   /\ progressIndex' = IF r.idx = 0 THEN i ELSE r.idx
                   /\ bulkApplying' = (r.idx # 0)
                   /\ req' = IF r.idx = 0 THEN "none" ELSE "sent"
                   /\ sent' = IF r.idx = 0 THEN sent ELSE Bump(sent, r.idx)
                   /\ faceIdx' = 1
                   /\ successCount' = 0
    /\ flagAtStart' = FALSE
    /\ UNCHANGED <<ctxVars, netDown, clusterName, renamedClusters, filterMode, applyingId,
                   applyError, cancelRef, showProgress, matchesToApply, singles, cancelledAt,
                   successReports>>

\* the faces a row's Apply button submits: preview.faces.map(...), every face
\* of the preview whatever faceSelections holds
SingleFaces(pv) == {pv.faces[k] : k \in 1..Len(pv.faces)}

\* POST /apply/unclustered or /create-faces/apply with all faces of a person:
\* the backend works face by face, so any part of them may go through
PersonOutcomes(faces) ==
    IF netDown THEN {[thrown |-> TRUE, got |-> {}]}
    ELSE {[thrown |-> FALSE, got |-> g] : g \in SUBSET faces} \cup {[thrown |-> TRUE, got |-> {}]}

\* CreateFacesResult.success of the backend: no face of the request failed
CreateSuccess(r, faces) == ~r.thrown /\ r.got = faces

\* AssignFaces: result.faces_assigned_count > 0; CreateFaces: result.success
SingleReported(r, faces) ==
    IF tab = "assign" THEN ~r.thrown /\ Cardinality(r.got) > 0 ELSE CreateSuccess(r, faces)

PeopleApplySingle(k) ==
    /\ tab # "transfer" /\ ~showProgress
    /\ k \in 1..Len(filteredPreviews)
    /\ ~isApplied(filteredPreviews[k])
    /\ applyingId # filteredPreviews[k].ms_person_id
    /\ Len(singles) < MaxSingles
    /\ applyingId' = filteredPreviews[k].ms_person_id
    /\ applyError' = FALSE
    /\ singles' = Append(singles, [id |-> filteredPreviews[k].ms_person_id,
                                   ms_person_id |-> filteredPreviews[k].ms_person_id,
                                   faces |-> SingleFaces(filteredPreviews[k])])
    /\ UNCHANGED <<ctxVars, created, batchHist, loopVars, netDown, clusterName, renamedClusters,
                   appliedPeople, filterMode, selectedIds, faceSelections, bulkApplying,
                   cancelRef, showProgress, successReports>>

PeopleSingleResume(k, r) ==
    /\ tab # "transfer"
    /\ k \in 1..Len(singles)
    /\ r \in PersonOutcomes(singles[k].faces)
    /\ LET p == singles[k].ms_person_id
           ok == SingleReported(r, singles[k].faces)
       IN  /\ created' = IF tab = "create" THEN created \cup {<<p, f>> : f \in r.got}
                         ELSE created
           /\ appliedPeople' = IF ok THEN appliedPeople \cup {p} ELSE appliedPeople
           /\ selectedIds' = IF ok THEN selectedIds \ {p} ELSE selectedIds
           /\ applyError' = IF ok THEN applyError ELSE TRUE
    /\ applyingId' = NoId
    /\ singles' = RemoveAt(singles, k)
    /\ UNCHANGED <<ctxVars, batchHist, loopVars, netDown, clusterName, renamedClusters,
                   filterMode, faceSelections, bulkApplying, cancelRef, showProgress,
                   successReports>>

\* FaceThumbnailGrid callbacks of an expanded row of a selected person
FaceRowOpen(p) ==
    /\ tab # "transfer" /\ ~showProgress
    /\ p \in selectedIds
    /\ \E k \in 1..Len(filteredPreviews) : filteredPreviews[k].ms_person_id = p
    /\ p \in 1..Len(previews)

\* preview.faces.map(f => f.immich_face_id) of the row of person p
FacesOf(p) == {previews[p].faces[k] : k \in 1..Len(previews[p].faces)}

onSelectionChange(p, faceId, selected) ==
    /\ FaceRowOpen(p)
    /\ faceId \in FacesOf(p)
    /\ LET cur == IF faceSelections[p] = Unset THEN FacesOf(p) ELSE faceSelections[p]
       IN  faceSelections' = [faceSelections EXCEPT ![p] =
                IF selected THEN cur \cup {faceId} ELSE cur \ {faceId}]
    /\ UNCHANGED <<ctxVars, created, batchHist, loopVars, netDown, clusterName, renamedClusters,
                   appliedPeople, filterMode, selectedIds, applyingId, applyError,
                   bulkApplying, cancelRef, showProgress, singles, successReports>>

onDeselectAll(p) ==
    /\ FaceRowOpen(p)
    /\ faceSelections' = [faceSelections EXCEPT ![p] = {}]
    /\ UNCHANGED <<ctxVars, created, batchHist, loopVars, netDown, clusterName, renamedClusters,
                   appliedPeople, filterMode, selectedIds, applyingId, applyError,
                   bulkApplying, cancelRef, showProgress, singles, successReports>>

onSelectAll(p) ==
    /\ FaceRowOpen(p)
    /\ faceSelections' = [faceSelections EXCEPT ![p] = FacesOf(p)]
    /\ UNCHANGED <<ctxVars, created, batchHist, loopVars, netDown, clusterName, renamedClusters,
                   appliedPeople, filterMode, selectedIds, applyingId, applyError,
                   bulkApplying, cancelRef, showProgress, singles, successReports>>

\* ------------------------------------------------- shared by the three tabs
\* the ids "Select All" collects from the visible rows
ApplicableIds ==
    IF tab = "transfer"
    THEN {filteredMatches[k].immich_cluster_id :
            k \in {j \in 1..Len(filteredMatches) : canApply(filteredMatches[j])}}
    ELSE {filteredPreviews[k].ms_person_id :
            k \in {j \in 1..Len(filteredPreviews) : ~isApplied(filteredPreviews[j])}}

\* applicableCount of the header checkbox counts rows, not ids
ApplicableCount ==
    IF tab = "transfer"
    THEN Cardinality({j \in 1..Len(filteredMatches) : canApply(filteredMatches[j])})
    ELSE Cardinality({j \in 1..Len(filteredPreviews) : ~isApplied(filteredPreviews[j])})

allSelected == ApplicableCount > 0 /\ Cardinality(selectedIds) = ApplicableCount

HeaderCheckbox ==
    IF tab = "transfer" THEN Len(filteredMatches) > 0 /\ filterMode = "applicable"
    ELSE Len(filteredPreviews) > 0

selectAll ==
    /\ ~showProgress
    /\ selectedIds = {} \/ (HeaderCheckbox /\ ~allSelected)
    /\ selectedIds' = ApplicableIds
    /\ UNCHANGED <<ctxVars, created, batchHist, loopVars, netDown, clusterName, renamedClusters,
                   appliedPeople, filterMode, faceSelections, applyingId, applyError,
                   bulkApplying, cancelRef, showProgress, singles, successReports>>

clearSelection ==
    /\ ~showProgress
    /\ selectedIds # {}
    /\ selectedIds' = {}
    /\ UNCHANGED <<ctxVars, created, batchHist, loopVars, netDown, clusterName, renamedClusters,
                   appliedPeople, filterMode, faceSelections, applyingId, applyError,
                   bulkApplying, cancelRef, showProgress, singles, successReports>>

FilterModesOf(t) == IF t = "transfer" THEN FilterModes ELSE {"all", "applied"}

setFilterMode(m) ==
    /\ ~showProgress
    /\ m \in FilterModesOf(tab)
    /\ filterMode' = m
    /\ UNCHANGED <<ctxVars, created, batchHist, loopVars, netDown, clusterName, renamedClusters,
                   appliedPeople, selectedIds, faceSelections, applyingId, applyError,
                   bulkApplying, cancelRef, showProgress, singles, successReports>>

\* ProgressModal: isComplete = completed + failed === total
isComplete ==
    CountStatus(progressItems, "success") + CountStatus(progressItems, "error")
        = Len(progressItems)

\* Cancel is offered while !isComplete && canCancel, Done / X once isComplete
handleCancelProgress ==
    /\ showProgress
    /\ isComplete \/ bulkApplying
    /\ cancelRef' = IF bulkApplying THEN TRUE ELSE cancelRef
    /\ cancelledAt' = IF bulkApplying /\ cancelledAt = 0 THEN progressIndex ELSE cancelledAt
    /\ flagAtStart' = flagAtStart
    /\ showProgress' = FALSE
    /\ UNCHANGED <<ctxVars, created, loopVars, netDown, clusterName, renamedClusters, appliedPeople,
                   filterMode, selectedIds, faceSelections, applyingId, applyError,
                   bulkApplying, singles, sent, resolved, transportFailedAt,
                   successReports>>

\* fetch without a signal: a request the backend never answers stays pending
RequestHangs ==
    /\ req = "sent"
    /\ req' = "hung"
    /\ UNCHANGED <<ctxVars, created, batchHist, netDown, clusterName, renamedClusters, appliedPeople,
                   filterMode, selectedIds, faceSelections, applyingId, applyError,
                   bulkApplying, cancelRef, showProgress, progressItems, progressIndex,
                   matchesToApply, faceIdx, successCount, singles, successReports>>

\* the backend becomes unreachable for the rest of the session
NetCollapse ==
    /\ ~netDown
    /\ netDown' = TRUE
    /\ UNCHANGED <<ctxVars, created, batchHist, loopVars, clusterName, renamedClusters, appliedPeople,
                   filterMode, selectedIds, faceSelections, applyingId, applyError,
                   bulkApplying, cancelRef, showProgress, singles, successReports>>

\* ------------------------------------------------------------ specification
Outcomes == {"success", "failed", "throw"}

PairSets == {m \in SUBSET (Persons \X Clusters) : Cardinality(m) \in 1..MaxMatches}

\* no cluster is under validation
NoIssue == [counts |-> [p \in Persons |-> 0], total |-> 0, severity |-> "none"]

\* no create-face item is being built
NoFace == [ms_rect_x1 |-> 0, ms_rect_y1 |-> 0, ms_rect_x2 |-> 0, ms_rect_y2 |-> 0,
           image_width |-> 0, image_height |-> 0]

NoPixels == [x |-> -1, y |-> -1, width |-> -1, height |-> -1]

RectIdle == face = NoFace /\ pixels = NoPixels

\* the photo viewer is closed
NoViewer == [open |-> FALSE, loading |-> FALSE, length |-> 0, currentIndex |-> 0,
             sortBy |-> "iou_asc", startIndex |-> 0]

ViewerIdle == viewer = NoViewer

ViewIdle == issue = NoIssue /\ RectIdle /\ ViewerIdle

\* loadThresholds() without a stored value: { minIoU: 0.3, maxCenterDist: 0.4 }
DefaultMinIoU == 30
DefaultMaxCenterDist == 40

ThresholdsInit ==
    /\ minIoU = DefaultMinIoU
    /\ maxCenterDist = DefaultMaxCenterDist
    /\ pendingMinIoU = DefaultMinIoU
    /\ pendingMaxCenterDist = DefaultMaxCenterDist
    /\ thresholdsDirty = FALSE

\* the component state after mount (the useState initial values) and an
\* untouched target store
ComponentInit ==
    /\ created = {}
    /\ netDown = FALSE
    /\ renamedClusters = {}
    /\ appliedPeople = {}
    /\ selectedIds = {}
    /\ faceSelections = [p \in Persons |-> Unset]
    /\ applyingId = NoId
    /\ applyError = FALSE
    /\ bulkApplying = FALSE
    /\ cancelRef = FALSE
    /\ showProgress = FALSE
    /\ progressItems = <<>>
    /\ progressIndex = 1
    /\ matchesToApply = <<>>
    /\ faceIdx = 1
    /\ successCount = 0
    /\ req = "none"
    /\ singles = <<>>
    /\ sent = <<>>
    /\ resolved = <<>>
    /\ successReports = [c \in Clusters |-> 0]
    /\ transportFailedAt = 0
    /\ cancelledAt = 0
    /\ flagAtStart = FALSE

\* localStorage.getItem(THRESHOLDS_STORAGE_KEY) is null
NoStored == [minIoU |-> 0, maxCenterDist |-> 0]
\* stats: null
NoStats == [dataset |-> 0, min_iou |-> 0, max_center_dist |-> 0]

\* the context of a session in which one analysis has run and nothing else
RunIdle ==
    /\ storedThresholds = NoStored
    /\ loading = FALSE
    /\ algorithmRunning = FALSE
    /\ error = FALSE
    /\ lastRun = 1
    /\ mergedPeople = {}
    /\ fixedClusters = {}
    /\ mergeCandidates = {}
    /\ validationIssues = {}
    /\ stats = NoStats
    /\ fetches = <<>>
    /\ lastFetch = "none"

Init ==
    /\ ThresholdsInit
    /\ RunIdle
    /\ rawMatches = <<>>
    /\ tab \in Tabs
    /\ IF tab = "transfer"
       THEN /\ clusterName \in [Clusters -> {NoName, PreName}]
            /\ \E matched \in PairSets : clusterMatches = BundleOf(matched, clusterName)
            /\ previews = <<>>
            /\ filterMode = "applicable"
       ELSE /\ clusterName = [c \in Clusters |-> NoName]
            /\ clusterMatches = <<>>
            /\ \E fc \in IF tab = "assign" THEN FaceCounts ELSE CreateFaceCounts :
                    previews = PreviewsOf(fc)
            /\ filterMode = "all"
    /\ ComponentInit
    /\ ViewIdle

Next ==
    \/ \E id \in Persons \cup Clusters : toggleSelection(id)
    \/ selectAll
    \/ clearSelection
    \/ \E m \in FilterModes \cup {"all", "applied"} : setFilterMode(m)
    \/ TransferApplySelected
    \/ \E o \in Outcomes : TransferResume(o)
    \/ \E k \in 1..(NumPersons * NumClusters) : TransferApplySingle(k)
    \/ \E k \in 1..MaxSingles, o \in Outcomes : TransferSingleResume(k, o)
    \/ PeopleApplySelected
    \/ \E o \in Outcomes : PeopleResume(o)
    \/ \E k \in Persons : PeopleApplySingle(k)
    \/ \E k \in 1..MaxSingles, r \in [thrown : BOOLEAN, got : SUBSET Faces] : PeopleSingleResume(k, r)
    \/ \E p \in Persons, f \in Faces, b \in BOOLEAN : onSelectionChange(p, f, b)
    \/ \E p \in Persons : onSelectAll(p)
    \/ \E p \in Persons : onDeselectAll(p)
    \/ handleCancelProgress
    \/ RequestHangs
    \/ NetCollapse

Spec == Init /\ [][Next]_vars

\* the event loop runs every continuation whose promise has settled, and an
\* answered request settles; a hung request (req = "hung") never does
FairSpec == Spec /\ WF_vars(\E o \in Outcomes : TransferResume(o))
                 /\ WF_vars(\E o \in Outcomes : PeopleResume(o))

\* ------------------------------------------------------------- Analytics
\* IoU and centre distance in hundredths; the values the raw matches and the
\* sliders take
IoUValues == {30, 40}
CenterDistValues == {40, 50}

RawMatchOf(k, iou, cd) ==
    [ms_person_id |-> PairAt(k).ms_person_id, immich_cluster_id |-> PairAt(k).immich_cluster_id,
     iou |-> iou, center_dist |-> cd]

RawMatchValues == {RawMatchOf(k, iou, cd) : k \in 1..NumRawPairs, iou \in IoUValues,
                                            cd \in CenterDistValues}

RawMatchLists == UNION {[1..n -> RawMatchValues] : n \in 0..MaxRaw}

\* variant of the filter with a strict comparison of the IoU
PassesStrict(m) == m.iou > pendingMinIoU /\ m.center_dist <= pendingMaxCenterDist

\* m.iou >= pendingMinIoU && m.center_dist <= pendingMaxCenterDist
Passes(m) == m.iou >= pendingMinIoU /\ m.center_dist <= pendingMaxCenterDist

\* Analytics.filteredMatches
analyticsFilteredMatches == SelectSeq(rawMatches, Passes)

\* numbers that are not integers are fractions in lowest terms
RECURSIVE Gcd(_, _)
Gcd(a, b) == IF b = 0 THEN a ELSE Gcd(b, a % b)

Frac(n, d) == [num |-> n \div Gcd(n, d), den |-> d \div Gcd(n, d)]

\* variant of the running mean that weighs the old mean with the new count
RunningMeanNewCount(avg, count, x) == Frac(avg.num * count + x * avg.den, avg.den * count)

\* (existing.avg * (existing.count - 1) + x) / existing.count, count already
\* incremented
RunningMean(avg, count, x) == Frac(avg.num * (count - 1) + x * avg.den, avg.den * count)

\* `${match.ms_person_id}-${match.immich_cluster_id}`
KeyOf(m) == <<m.ms_person_id, m.immich_cluster_id>>

\* position of the key in the Map (insertion order), 0 when absent
KeyIndex(grouped, key) ==
    IF \E j \in 1..Len(grouped) : grouped[j].key = key
    THEN CHOOSE j \in 1..Len(grouped) : grouped[j].key = key
    ELSE 0

\* the for loop over filteredMatches from position k on
RECURSIVE Aggregate(_, _, _)
Aggregate(list, k, grouped) ==
    IF k > Len(list) THEN grouped
    ELSE LET m == list[k]
             j == KeyIndex(grouped, KeyOf(m))
         IN  IF j # 0
             THEN LET c == grouped[j].count + 1
                  IN  Aggregate(list, k + 1, [grouped EXCEPT ![j] =
                        [key |-> KeyOf(m), count |-> c,
                         avg_iou |-> RunningMean(grouped[j].avg_iou, c, m.iou),
                         avg_center_dist |->
                            RunningMean(grouped[j].avg_center_dist, c, m.center_dist)]])
             ELSE Aggregate(list, k + 1, Append(grouped,
                        [key |-> KeyOf(m), count |-> 1, avg_iou |-> Frac(m.iou, 1),
                         avg_center_dist |-> Frac(m.center_dist, 1)]))

\* insertion of e behind every element that does not sort after it: the
\* sort is stable, elements of equal count keep their order
InsertByCount(sorted, e) ==
    LET before == Cardinality({j \in 1..Len(sorted) : sorted[j].count >= e.count})
    IN  [j \in 1..(Len(sorted) + 1) |->
            IF j <= before THEN sorted[j] ELSE IF j = before + 1 THEN e ELSE sorted[j - 1]]

\* .sort((a, b) => b.count - a.count)
RECURSIVE SortByCount(_, _, _)
SortByCount(list, k, sorted) ==
    IF k > Len(list) THEN sorted ELSE SortByCount(list, k + 1, InsertByCount(sorted, list[k]))

AggregatedOf(list) == SortByCount(Aggregate(list, 1, <<>>), 1, <<>>)

\* Analytics.aggregatedMatches
aggregatedMatches == AggregatedOf(analyticsFilteredMatches)

HighCount == 5
HighIoU == 40
MediumCount == 2
MediumIoU == 35

\* avg_iou >= t, t in hundredths
AtLeast(avg, t) == avg.num >= t * avg.den

IsHigh(m) == m.count >= HighCount /\ AtLeast(m.avg_iou, HighIoU)

\* variant of the medium filter without the exclusion of the high pairs
IsMediumAlone(m) == m.count >= MediumCount /\ AtLeast(m.avg_iou, MediumIoU)

IsMedium(m) == m.count >= MediumCount /\ AtLeast(m.avg_iou, MediumIoU) /\ ~IsHigh(m)

BreakdownOf(agg) ==
    LET high == Len(SelectSeq(agg, IsHigh))
        medium == Len(SelectSeq(agg, IsMedium))
    IN  [high |-> high, medium |-> medium, low |-> Len(agg) - high - medium]

\* Analytics.confidenceBreakdown
confidenceBreakdown == BreakdownOf(aggregatedMatches)

\* the sliders are rendered once an analysis has run; the overlay shown while
\* loading covers the page
SlidersShown == tab = "analytics" /\ lastRun # 0 /\ ~loading

\* variant that compares only the IoU slider
DirtyOnMinIoU(I, C) == I # minIoU

\* thresholdsDirty of the setters, with the slider values (I, C) after the set
DirtyAfter(I, C) == I # minIoU \/ C # maxCenterDist

setPendingMinIoU(value) ==
    /\ SlidersShown
    /\ pendingMinIoU' = value
    /\ thresholdsDirty' = DirtyAfter(value, pendingMaxCenterDist)
    /\ UNCHANGED <<applyVars, runVars, viewVars, rawMatches, minIoU, maxCenterDist,
                   pendingMaxCenterDist>>

setPendingMaxCenterDist(value) ==
    /\ SlidersShown
    /\ pendingMaxCenterDist' = value
    /\ thresholdsDirty' = DirtyAfter(pendingMinIoU, value)
    /\ UNCHANGED <<applyVars, runVars, viewVars, rawMatches, minIoU, maxCenterDist,
                   pendingMinIoU>>

\* the Analytics tab over the raw matches of a finished analysis
AnalyticsInit ==
    /\ ThresholdsInit
    /\ RunIdle
    /\ rawMatches \in RawMatchLists
    /\ tab = "analytics"
    /\ clusterName = [c \in Clusters |-> NoName]
    /\ clusterMatches = <<>>
    /\ previews = <<>>
    /\ filterMode = "all"
    /\ ComponentInit
    /\ ViewIdle

AnalyticsNext ==
    \/ \E v \in IoUValues : setPendingMinIoU(v)
    \/ \E v \in CenterDistValues : setPendingMaxCenterDist(v)

AnalyticsSpec == AnalyticsInit /\ [][AnalyticsNext]_vars

\* -------------------------------------------------------- MatchingContext
ContextTabs == {"analytics", "merge", "fix"}

Min(a, b) == IF a <= b THEN a ELSE b

\* POST /algorithm/run: the bundle the backend returns for dataset r, with
\* the cluster names the target store holds when the backend reads it; its
\* counts are those of the buckets at the thresholds (I, C) of the request
AnalysisResult(r, names, I, C) ==
    [raw_matches |-> [k \in 1..r |-> RawMatchOf(k, 40, 40)],
     all_matches |-> BundleOf({<<PairAt(k).ms_person_id, PairAt(k).immich_cluster_id>> :
                                  k \in 1..r}, names),
     previews |-> PreviewsOf([k \in 1..Min(r, NumPersons) |-> 1]),
     issues |-> {c \in Clusters : c <= r},
     candidates |-> {q \in Persons : q <= r},
     stats |-> [dataset |-> r, min_iou |-> I, max_center_dist |-> C]]

\* state.appliedChanges
appliedChanges ==
    [renamedClusters |-> renamedClusters, assignedPeople |-> appliedPeople,
     mergedPeople |-> mergedPeople, fixedClusters |-> fixedClusters]

EmptyChanges ==
    [renamedClusters |-> {}, assignedPeople |-> {}, mergedPeople |-> {}, fixedClusters |-> {}]

\* loadAppliedChanges(): what an earlier session left in localStorage
StoredChanges ==
    {EmptyChanges,
     [renamedClusters |-> {1}, assignedPeople |-> {1}, mergedPeople |-> {1},
      fixedClusters |-> {1}]}

\* fetchAllData up to its await; changes is what the call will write into
\* appliedChanges when it resolves: the empty sets on an initial run, else
\* state.appliedChanges as the closure holds it
StartFetch(I, C, isInitialRun) ==
    /\ Len(fetches) < MaxFetches
    /\ loading' = ~isInitialRun
    /\ algorithmRunning' = isInitialRun
    /\ error' = FALSE
    /\ fetches' = Append(fetches,
            [min_iou |-> I, max_center_dist |-> C, isInitialRun |-> isInitialRun,
             changes |-> IF isInitialRun THEN EmptyChanges ELSE appliedChanges,
             names |-> clusterName, stale |-> FALSE])

\* the Run button: before the first run disabled={algorithmRunning}, later
\* disabled={algorithmRunning || loading}
runAlgorithm ==
    /\ tab = "analytics" /\ ~algorithmRunning /\ ~loading
    /\ lastRun < MaxRuns
    /\ StartFetch(pendingMinIoU, pendingMaxCenterDist, TRUE)
    /\ UNCHANGED <<componentVars, tab, clusterMatches, previews, thresholdVars,
                   renamedClusters, appliedPeople, filterMode, selectedIds,
                   storedThresholds, lastRun, mergedPeople, fixedClusters, mergeCandidates,
                   validationIssues, stats, lastFetch>>

\* the Apply button: disabled={!thresholdsDirty || loading}
applyThresholds ==
    /\ SlidersShown /\ thresholdsDirty
    /\ storedThresholds' = [minIoU |-> pendingMinIoU, maxCenterDist |-> pendingMaxCenterDist]
    /\ StartFetch(pendingMinIoU, pendingMaxCenterDist, FALSE)
    /\ UNCHANGED <<componentVars, tab, clusterMatches, previews, thresholdVars,
                   renamedClusters, appliedPeople, filterMode, selectedIds,
                   lastRun, mergedPeople, fixedClusters, mergeCandidates,
                   validationIssues, stats, lastFetch>>

\* history: the calls issued before call k are stale once k has filled the
\* state
MarkOlder(fs, k) == [j \in 1..Len(fs) |-> IF j < k THEN [fs[j] EXCEPT !.stale = TRUE] ELSE fs[j]]

\* variant that takes the active thresholds from the sliders
ActiveFromSliders(f) == [min_iou |-> pendingMinIoU, max_center_dist |-> pendingMaxCenterDist]

\* minIoU: minIoU, maxCenterDist: maxCenterDist, the arguments of the call
ActiveAfterRun(f) == [min_iou |-> f.min_iou, max_center_dist |-> f.max_center_dist]

\* variant of the success path that keeps the matches of the last run
MatchesKept(result) == clusterMatches

\* clusterMatches: result.matches.all_matches
MatchesAfterRun(result) == result.all_matches

\* runFullAnalysis resolves for the k-th call: the rest of the try block.
\* The backend read the target store when the request arrived (atRequest)
\* or just before it answered.
FetchSucceeds(k, r, atRequest) ==
    /\ k \in 1..Len(fetches)
    /\ LET f == fetches[k]
           result == AnalysisResult(r, IF atRequest THEN f.names ELSE clusterName,
                                    f.min_iou, f.max_center_dist)
           changes == f.changes
       IN  /\ loading' = FALSE
           /\ algorithmRunning' = FALSE
           /\ lastRun' = IF f.isInitialRun THEN lastRun + 1 ELSE lastRun
           /\ rawMatches' = result.raw_matches
           /\ clusterMatches' = MatchesAfterRun(result)
           /\ previews' = result.previews
           /\ validationIssues' = result.issues
           /\ mergeCandidates' = result.candidates
           /\ stats' = result.stats
           /\ minIoU' = ActiveAfterRun(f).min_iou
           /\ maxCenterDist' = ActiveAfterRun(f).max_center_dist
           /\ pendingMinIoU' = f.min_iou
           /\ pendingMaxCenterDist' = f.max_center_dist
           /\ thresholdsDirty' = FALSE
           /\ renamedClusters' = changes.renamedClusters
           /\ appliedPeople' = changes.assignedPeople
           /\ mergedPeople' = changes.mergedPeople
           /\ fixedClusters' = changes.fixedClusters
    /\ fetches' = RemoveAt(MarkOlder(fetches, k), k)
    /\ lastFetch' = "ok"
    /\ UNCHANGED <<componentVars, tab, filterMode, selectedIds, storedThresholds, error>>

\* variant of the catch block that drops the raw matches
RawClearedAfterFailure == <<>>

\* the catch block spreads prev: the data of the last good run stays
RawAfterFailure == rawMatches

\* runFullAnalysis rejects for the k-th call: the catch block
FetchFails(k) ==
    /\ k \in 1..Len(fetches)
    /\ loading' = FALSE
    /\ algorithmRunning' = FALSE
    /\ error' = TRUE
    /\ rawMatches' = RawAfterFailure
    /\ fetches' = RemoveAt(fetches, k)
    /\ lastFetch' = "failed"
    /\ UNCHANGED <<componentVars, tab, clusterMatches, previews, minIoU, maxCenterDist,
                   pendingMinIoU, pendingMaxCenterDist, thresholdsDirty,
                   renamedClusters, appliedPeople, filterMode, selectedIds,
                   storedThresholds, lastRun, mergedPeople, fixedClusters, mergeCandidates,
                   validationIssues, stats>>

\* useState<FilterMode>(...) of the component that mounts
MountedFilterMode(t) == IF t = "transfer" THEN "applicable" ELSE "all"

\* a click in the navigation bar: the component of the old tab is unmounted,
\* the new one mounts with its initial state.  The modal overlay covers the
\* bar while a batch is shown; leaving a component while one of its
\* requests is still awaited is not followed here.
handleTabChange(t) ==
    /\ ~loading /\ ~showProgress
    /\ t # tab
    /\ req = "none" /\ singles = <<>>
    /\ tab' = t
    /\ selectedIds' = {}
    /\ filterMode' = MountedFilterMode(t)
    /\ faceSelections' = [p \in Persons |-> Unset]
    /\ applyingId' = NoId
    /\ applyError' = FALSE
    /\ bulkApplying' = FALSE
    /\ cancelRef' = FALSE
    /\ showProgress' = FALSE
    /\ progressItems' = <<>>
    /\ progressIndex' = 1
    /\ matchesToApply' = <<>>
    /\ faceIdx' = 1
    /\ successCount' = 0
    /\ UNCHANGED <<netDown, clusterName, created, req, singles, batchHist, successReports,
                   clusterMatches, previews, thresholdVars, runVars, viewVars,
                   renamedClusters, appliedPeople>>

\* variant of markClustersMerged that builds the new changes without
\* spreading prev.appliedChanges
MarkedMergedAlone(personId) ==
    [EmptyChanges EXCEPT !.mergedPeople = mergedPeople \cup {personId}]

\* markClustersMerged: { ...prev.appliedChanges, mergedPeople: [...] }
MarkedMerged(personId) ==
    [appliedChanges EXCEPT !.mergedPeople = mergedPeople \cup {personId}]

\* markClusterFixed: { ...prev.appliedChanges, fixedClusters: [...] }
MarkedFixed(clusterId) ==
    [appliedChanges EXCEPT !.fixedClusters = fixedClusters \cup {clusterId}]

RECURSIVE MarkAllMerged(_, _)
MarkAllMerged(ids, changes) ==
    IF ids = {} THEN changes
    ELSE LET id == CHOOSE x \in ids : TRUE
         IN  MarkAllMerged(ids \ {id},
                [changes EXCEPT !.mergedPeople = MarkedMerged(id).mergedPeople \cup @])

\* the rows of MergeClusters that can be marked (filter 'pending', canMark)
MergeRowShown(id) ==
    tab = "merge" /\ lastRun # 0 /\ ~loading /\ id \in mergeCandidates /\ id \notin mergedPeople

\* the rows of FixIssues that can be marked (filter 'errors', canMark)
FixRowShown(id) ==
    tab = "fix" /\ lastRun # 0 /\ ~loading /\ id \in validationIssues /\ id \notin fixedClusters

SetChanges(changes) ==
    /\ renamedClusters' = changes.renamedClusters
    /\ appliedPeople' = changes.assignedPeople
    /\ mergedPeople' = changes.mergedPeople
    /\ fixedClusters' = changes.fixedClusters

MarkFrame ==
    UNCHANGED <<componentVars, tab, clusterMatches, previews, thresholdVars, filterMode,
                storedThresholds, loading, algorithmRunning, error, lastRun,
                mergeCandidates, validationIssues, stats, fetches, lastFetch>>

MarkToggleSelection(id) ==
    /\ MergeRowShown(id) \/ FixRowShown(id)
    /\ selectedIds' = IF id \in selectedIds THEN selectedIds \ {id} ELSE selectedIds \cup {id}
    /\ UNCHANGED <<renamedClusters, appliedPeople, mergedPeople, fixedClusters>>
    /\ MarkFrame

markAsMerged(personId) ==
    /\ MergeRowShown(personId)
    /\ SetChanges(MarkedMerged(personId))
    /\ selectedIds' = selectedIds \ {personId}
    /\ MarkFrame

markSelectedAsMerged ==
    /\ tab = "merge" /\ lastRun # 0 /\ ~loading /\ selectedIds # {}
    /\ SetChanges(MarkAllMerged(selectedIds, appliedChanges))
    /\ selectedIds' = {}
    /\ MarkFrame

markAsFixed(clusterId) ==
    /\ FixRowShown(clusterId)
    /\ SetChanges(MarkedFixed(clusterId))
    /\ selectedIds' = selectedIds \ {clusterId}
    /\ MarkFrame

markSelectedAsFixed ==
    /\ tab = "fix" /\ lastRun # 0 /\ ~loading /\ selectedIds # {}
    /\ SetChanges([appliedChanges EXCEPT !.fixedClusters = fixedClusters \cup selectedIds])
    /\ selectedIds' = {}
    /\ MarkFrame

\* the provider mounts: nothing has run, the applied changes and thresholds
\* come from localStorage
ContextInit ==
    /\ ThresholdsInit
    /\ storedThresholds = NoStored
    /\ loading = FALSE
    /\ algorithmRunning = FALSE
    /\ error = FALSE
    /\ lastRun = 0
    /\ \E ch \in StoredChanges :
          /\ renamedClusters = ch.renamedClusters
          /\ appliedPeople = ch.assignedPeople
          /\ mergedPeople = ch.mergedPeople
          /\ fixedClusters = ch.fixedClusters
    /\ mergeCandidates = {}
    /\ validationIssues = {}
    /\ stats = NoStats
    /\ fetches = <<>>
    /\ lastFetch = "none"
    /\ rawMatches = <<>>
    /\ tab = "analytics"
    /\ clusterName = [c \in Clusters |-> NoName]
    /\ clusterMatches = <<>>
    /\ previews = <<>>
    /\ filterMode = "all"
    /\ created = {}
    /\ netDown = FALSE
    /\ selectedIds = {}
    /\ faceSelections = [p \in Persons |-> Unset]
    /\ applyingId = NoId
    /\ applyError = FALSE
    /\ bulkApplying = FALSE
    /\ cancelRef = FALSE
    /\ showProgress = FALSE
    /\ progressItems = <<>>
    /\ progressIndex = 1
    /\ matchesToApply = <<>>
    /\ faceIdx = 1
    /\ successCount = 0
    /\ req = "none"
    /\ singles = <<>>
    /\ sent = <<>>
    /\ resolved = <<>>
    /\ successReports = [c \in Clusters |-> 0]
    /\ transportFailedAt = 0
    /\ cancelledAt = 0
    /\ flagAtStart = FALSE
    /\ ViewIdle

ContextNext ==
    \/ runAlgorithm
    \/ applyThresholds
    \/ \E k \in 1..MaxFetches, r \in 1..NumResults, a \in BOOLEAN : FetchSucceeds(k, r, a)
    \/ \E k \in 1..MaxFetches : FetchFails(k)
    \/ \E v \in IoUValues : setPendingMinIoU(v)
    \/ \E v \in CenterDistValues : setPendingMaxCenterDist(v)
    \/ \E t \in ContextTabs : handleTabChange(t)
    \/ \E id \in Persons \cup Clusters : MarkToggleSelection(id)
    \/ \E id \in Persons : markAsMerged(id)
    \/ markSelectedAsMerged
    \/ \E id \in Clusters : markAsFixed(id)
    \/ markSelectedAsFixed

ContextSpec == ContextInit /\ [][ContextNext]_vars

\* ------------------------------------------------------- validation issue
\* the knobs of the severity rule: at least 2 faces and at least 10% of the
\* faces of the cluster
MinorityMinFaces == 2
MinorityPercent == 10

Max2(a, b) == IF a >= b THEN a ELSE b

\* matched_faces: the sum of the per-person face counts
RECURSIVE MatchedFaces(_, _)
MatchedFaces(counts, p) == IF p = 0 THEN 0 ELSE counts[p] + MatchedFaces(counts, p - 1)

\* the face count of the second-largest source person: the largest count
\* left when one person of the largest count is set aside
RECURSIVE LargestBut(_, _, _)
LargestBut(counts, skip, p) ==
    IF p = 0 THEN 0
    ELSE IF p = skip THEN LargestBut(counts, skip, p - 1)
         ELSE Max2(counts[p], LargestBut(counts, skip, p - 1))

SecondLargest(counts) ==
    LET top == CHOOSE q \in Persons : \A p \in Persons : counts[q] >= counts[p]
    IN  LargestBut(counts, top, NumPersons)

\* variant of the rule without the floor on the face count
SeverityByShare(counts, total) ==
    IF SecondLargest(counts) * 100 >= MinorityPercent * total THEN "error" ELSE "warning"

\* severity of a ValidationIssue
SeverityOf(counts, total) ==
    IF /\ SecondLargest(counts) >= MinorityMinFaces
       /\ SecondLargest(counts) * 100 >= MinorityPercent * total
    THEN "error" ELSE "warning"

\* a cluster onto which at least two source persons project
IssueInputs ==
    {[counts |-> c, total |-> t, severity |-> "none"] :
        c \in {f \in [Persons -> 0..MaxFaceCount] :
                 Cardinality({p \in Persons : f[p] > 0}) >= 2},
        t \in 1..MaxClusterFaces}

\* POST /validation/run classifies the cluster
runValidation ==
    /\ issue.severity = "none"
    /\ issue' = [issue EXCEPT !.severity = SeverityOf(issue.counts, issue.total)]
    /\ UNCHANGED <<applyVars, thresholdVars, storedThresholds, loading, algorithmRunning,
                   error, lastRun, mergedPeople, fixedClusters, mergeCandidates,
                   validationIssues, stats, fetches, lastFetch, rectVars, viewerVars>>

ValidationInit ==
    /\ ThresholdsInit
    /\ RunIdle
    /\ rawMatches = <<>>
    /\ tab = "fix"
    /\ clusterName = [c \in Clusters |-> NoName]
    /\ clusterMatches = <<>>
    /\ previews = <<>>
    /\ filterMode = "all"
    /\ ComponentInit
    /\ issue \in {i \in IssueInputs : i.total >= MatchedFaces(i.counts, NumPersons)}
    /\ RectIdle
    /\ ViewerIdle

ValidationNext == runValidation

ValidationSpec == ValidationInit /\ [][ValidationNext]_vars

\* ------------------------------------------- CreateFaces.rectToPixels
\* Math.round of num / den for num >= 0: halves go up
Round(num, den) == (2 * num + den) \div (2 * den)

\* normalized coordinates are multiples of 1 / RectDen, held as numerators
rectToPixels(f) ==
    [x |-> Round(f.ms_rect_x1 * f.image_width, RectDen),
     y |-> Round(f.ms_rect_y1 * f.image_height, RectDen),
     width |-> Round((f.ms_rect_x2 - f.ms_rect_x1) * f.image_width, RectDen),
     height |-> Round((f.ms_rect_y2 - f.ms_rect_y1) * f.image_height, RectDen)]

\* rectangles with 0 <= x1 <= x2 <= 1 and 0 <= y1 <= y2 <= 1 on an image
RectInputs ==
    {f \in [ms_rect_x1 : 0..RectDen, ms_rect_y1 : 0..RectDen,
            ms_rect_x2 : 0..RectDen, ms_rect_y2 : 0..RectDen,
            image_width : 1..MaxImageSize, image_height : 1..MaxImageSize] :
        f.ms_rect_x1 <= f.ms_rect_x2 /\ f.ms_rect_y1 <= f.ms_rect_y2}

\* applySingle / applySelected build the item of one face
createFaceItem ==
    /\ pixels = NoPixels
    /\ pixels' = rectToPixels(face)
    /\ UNCHANGED <<applyVars, thresholdVars, storedThresholds, loading, algorithmRunning,
                   error, lastRun, mergedPeople, fixedClusters, mergeCandidates,
                   validationIssues, stats, fetches, lastFetch, issue, face, viewerVars>>

RectInit ==
    /\ ThresholdsInit
    /\ RunIdle
    /\ rawMatches = <<>>
    /\ tab = "create"
    /\ clusterName = [c \in Clusters |-> NoName]
    /\ clusterMatches = <<>>
    /\ previews = <<>>
    /\ filterMode = "all"
    /\ ComponentInit
    /\ issue = NoIssue
    /\ face \in RectInputs
    /\ pixels = NoPixels
    /\ ViewerIdle

RectNext == createFaceItem

RectSpec == RectInit /\ [][RectNext]_vars

\* ------------------------------------------- FacePhotoViewer
SortBys == {"iou_desc", "iou_asc", "center_dist_asc", "center_dist_desc", "filename"}

Min2(a, b) == IF a < b THEN a ELSE b

viewerFrame ==
    UNCHANGED <<applyVars, thresholdVars, storedThresholds, loading, algorithmRunning,
                error, lastRun, mergedPeople, fixedClusters, mergeCandidates,
                validationIssues, stats, fetches, lastFetch, issue, rectVars>>

\* window keydown listener, registered while the viewer is mounted, also
\* while the loading screen is shown
handleKeyDown(key) ==
    /\ viewer.open
    /\ viewer' = [viewer EXCEPT !.currentIndex =
                     IF key = "ArrowLeft" THEN Max2(0, @ - 1)
                     ELSE Min2(viewer.length - 1, @ + 1)]
    /\ viewerFrame

\* the chevron buttons, rendered with the current face and disabled at the ends
clickPrevious ==
    /\ viewer.open /\ ~viewer.loading
    /\ viewer.currentIndex \in 0..(viewer.length - 1)
    /\ viewer.currentIndex # 0
    /\ viewer' = [viewer EXCEPT !.currentIndex = Max2(0, @ - 1)]
    /\ viewerFrame

clickNext ==
    /\ viewer.open /\ ~viewer.loading
    /\ viewer.currentIndex \in 0..(viewer.length - 1)
    /\ viewer.currentIndex # viewer.length - 1
    /\ viewer' = [viewer EXCEPT !.currentIndex = Min2(viewer.length - 1, @ + 1)]
    /\ viewerFrame

\* the sort dropdown: setSortBy(value); setCurrentIndex(0)
changeSort(s) ==
    /\ viewer.open /\ ~viewer.loading
    /\ viewer' = [viewer EXCEPT !.sortBy = s, !.currentIndex = 0]
    /\ viewerFrame

\* loadDetails gets n faces: setFaces(data), setLoading(false). The caller
\* took startIndex from a face of the same person, so a loaded list reaches it
loadDetailsDone(n) ==
    /\ viewer.open /\ viewer.loading
    /\ n > viewer.startIndex
    /\ viewer' = [viewer EXCEPT !.length = n, !.loading = FALSE]
    /\ viewerFrame

\* loadDetails throws: faces stays empty, setLoading(false)
loadDetailsFails ==
    /\ viewer.open /\ viewer.loading
    /\ viewer' = [viewer EXCEPT !.loading = FALSE]
    /\ viewerFrame

ViewerInit ==
    /\ ThresholdsInit
    /\ RunIdle
    /\ rawMatches = <<>>
    /\ tab = "assign"
    /\ clusterName = [c \in Clusters |-> NoName]
    /\ clusterMatches = <<>>
    /\ previews = <<>>
    /\ filterMode = "all"
    /\ ComponentInit
    /\ issue = NoIssue
    /\ RectIdle
    /\ \E i \in 0..MaxStartIndex, s \in SortBys :
          viewer = [open |-> TRUE, loading |-> TRUE, length |-> 0, currentIndex |-> i,
                    sortBy |-> s, startIndex |-> i]

ViewerNext ==
    \/ \E key \in {"ArrowLeft", "ArrowRight"} : handleKeyDown(key)
    \/ clickPrevious
    \/ clickNext
    \/ \E s \in SortBys : changeSort(s)
    \/ \E n \in 1..MaxViewerFaces : loadDetailsDone(n)
    \/ loadDetailsFails

ViewerSpec == ViewerInit /\ [][ViewerNext]_vars

\* ------------------------------------------- rename batch, then a new run
RerunTabs == {"transfer", "analytics"}

\* a session in which the analysis of dataset r has run once and the
\* Transfer Names tab is open
RerunInit ==
    /\ ThresholdsInit
    /\ storedThresholds = NoStored
    /\ loading = FALSE
    /\ algorithmRunning = FALSE
    /\ error = FALSE
    /\ lastRun = 1
    /\ mergedPeople = {}
    /\ fixedClusters = {}
    /\ fetches = <<>>
    /\ lastFetch = "none"
    /\ tab = "transfer"
    /\ clusterName \in [Clusters -> {NoName, PreName}]
    /\ \E r \in 1..MaxMatches :
          LET result == AnalysisResult(r, clusterName, minIoU, maxCenterDist)
          IN  /\ rawMatches = result.raw_matches
              /\ clusterMatches = result.all_matches
              /\ previews = result.previews
              /\ validationIssues = result.issues
              /\ mergeCandidates = result.candidates
              /\ stats = result.stats
    /\ filterMode = MountedFilterMode("transfer")
    /\ ComponentInit
    /\ ViewIdle

\* the dataset is quiescent: a new run sees the pairs of the run before
RerunNext ==
    \/ \E id \in Clusters : toggleSelection(id)
    \/ selectAll
    \/ TransferApplySelected
    \/ \E o \in Outcomes : TransferResume(o)
    \/ handleCancelProgress
    \/ \E t \in RerunTabs : handleTabChange(t)
    \/ runAlgorithm
    \/ \E k \in 1..MaxFetches, r \in {Len(clusterMatches)}, a \in BOOLEAN :
          FetchSucceeds(k, r, a)
    \/ \E k \in 1..MaxFetches : FetchFails(k)

RerunSpec == RerunInit /\ [][RerunNext]_vars

\* ------------------------------------------------------------------ claims
Terminal == {"success", "error"}
N == Len(progressItems)
Status(k) == progressItems[k].status

\* C1: in a rename batch, once cancel was raised while item k was in flight,
\* the request of item k is not interrupted (it stays in flight until it
\* settles and item k then ends as success or error), items before k are
\* terminal, and items after k keep status pending with no request issued.
C1_CancelLeavesRestPending ==
    (tab = "transfer" /\ cancelledAt # 0) =>
        /\ \A j \in 1..N : j < cancelledAt => Status(j) \in Terminal
        /\ \A j \in 1..N : j > cancelledAt => Status(j) = "pending" /\ sent[j] = 0
        /\ sent[cancelledAt] = 1
        /\ IF bulkApplying
           THEN Status(cancelledAt) = "processing" /\ req # "none" /\ resolved[cancelledAt] = 0
           ELSE Status(cancelledAt) \in Terminal /\ resolved[cancelledAt] = 1

C1_Witness ==
    /\ tab = "transfer" /\ cancelledAt = 2 /\ ~bulkApplying /\ N = 3
    /\ Status(1) = "success" /\ Status(2) = "success" /\ Status(3) = "pending"

\* C2: within one batch at most one item is processing, at most one request
\* is outstanding, and a request for a later item has been issued only when
\* every earlier item of the list is terminal with all its requests settled.
C2_StrictlySequential ==
    /\ Cardinality({k \in 1..N : Status(k) = "processing"}) <= 1
    /\ \A k \in 1..N : sent[k] - resolved[k] \in {0, 1}
    /\ Cardinality({k \in 1..N : sent[k] # resolved[k]}) <= 1
    /\ \A i, j \in 1..N :
          (i < j /\ sent[j] > 0) => (Status(i) \in Terminal /\ resolved[i] = sent[i])
    /\ \A k \in 1..N : progressItems[k].id = matchesToApply[k].id

C2_Witness ==
    /\ tab = "assign" /\ N = 2 /\ bulkApplying
    /\ Status(1) = "success" /\ sent[1] = 2 /\ resolved[1] = 2
    /\ Status(2) = "processing" /\ sent[2] = 1 /\ resolved[2] = 0

\* the status an item had before a step; applySelected starts every item of a
\* new batch as pending
OldStatus(k) == IF ~showProgress /\ showProgress' THEN "pending" ELSE Status(k)

Edge(a, b) ==
    \/ a = b
    \/ a = "pending" /\ b = "processing"
    \/ a = "processing" /\ b \in Terminal

\* C3 as stated: in every batch each item's status changes only along
\* pending -> processing -> success or error.
C3_OnlyThroughProcessing ==
    [][\A k \in 1..Len(progressItems') : Edge(OldStatus(k), progressItems'[k].status)]_vars

\* C3 as amended: the same, except that in assign-faces and create-faces
\* batches a person with no selected face goes from pending straight to
\* success; nothing moves backwards and success and error are final.
C3_StatusEdges ==
    [][\A k \in 1..Len(progressItems') :
          \/ Edge(OldStatus(k), progressItems'[k].status)
          \/ /\ tab # "transfer"
             /\ Len(matchesToApply'[k].faces) = 0
             /\ OldStatus(k) = "pending"
             /\ progressItems'[k].status = "success"]_vars

C3_Witness ==
    /\ tab = "assign" /\ N = 2 /\ ~bulkApplying
    /\ Status(1) = "error" /\ sent[1] = 2
    /\ Status(2) = "success" /\ sent[2] = 0

\* C4: no rename batch issues rename requests for the same cluster id with
\* two different source persons.
C4_OnePersonPerCluster ==
    tab = "transfer" =>
        \A i, j \in 1..Len(matchesToApply) :
            (sent[i] > 0 /\ sent[j] > 0 /\ matchesToApply[i].id = matchesToApply[j].id)
                => matchesToApply[i].ms_person_id = matchesToApply[j].ms_person_id

\* a rename request settles in this step: the awaited one of the batch ...
BatchRenameSettles == tab = "transfer" /\ resolved' # resolved /\ showProgress' = showProgress

\* ... or the k-th request awaited by an applySingle
SingleRenameSettles(k) ==
    tab = "transfer" /\ k \in 1..Len(singles) /\ singles' = RemoveAt(singles, k)

BatchSends(j) == tab = "transfer" /\ j \in 1..Len(sent') /\
                 (IF ~showProgress /\ showProgress' THEN sent'[j] = 1 ELSE sent'[j] > sent[j])

\* C6: every rename request that is issued targets a cluster whose name is
\* null in the bundle and which is not in renamedClusters when it is sent.
C6_SentOnlyForApplicable ==
    [][/\ \A j \in 1..Len(matchesToApply') :
             BatchSends(j) =>
                /\ matchesToApply'[j].id \notin renamedClusters
                /\ \A k \in 1..Len(clusterMatches) :
                      clusterMatches[k].immich_cluster_id = matchesToApply'[j].id
                          => clusterMatches[k].immich_cluster_name = NoName
       /\ (tab = "transfer" /\ Len(singles') > Len(singles)) =>
             /\ singles'[Len(singles')].id \notin renamedClusters
             /\ \A k \in 1..Len(clusterMatches) :
                   clusterMatches[k].immich_cluster_id = singles'[Len(singles')].id
                       => clusterMatches[k].immich_cluster_name = NoName]_vars

\* C7: a rename batch that is not cancelled sends every item exactly once and
\* runs to its end whatever the outcomes: when it has returned every item is
\* terminal with one settled request; and a request that settles without
\* success marks its own item error and no other item.
C7_FailureIsPerItem ==
    /\ [](tab = "transfer" =>
            /\ \A k \in 1..N : sent[k] <= 1
            /\ (~bulkApplying /\ ~cancelRef) =>
                  \A k \in 1..N : sent[k] = 1 /\ resolved[k] = 1 /\ Status(k) \in Terminal)
    /\ [][BatchRenameSettles =>
            \A k \in 1..N :
               (k # progressIndex /\ progressItems'[k].status = "error") => Status(k) = "error"]_vars

C7_Witness ==
    /\ tab = "transfer" /\ N = 3 /\ ~bulkApplying /\ ~cancelRef
    /\ Status(1) = "error" /\ Status(2) = "success" /\ Status(3) = "error"

\* C8: in the progress list every item is in exactly one of success, error,
\* pending once the batch function has returned (none is left processing);
\* a batch that ran to its end without cancel is shown complete
\* (success + error = total), and while a batch runs exactly one item is
\* processing.
C8_CountsAddUp ==
    /\ ~bulkApplying =>
          /\ CountStatus(progressItems, "processing") = 0
          /\ CountStatus(progressItems, "success") + CountStatus(progressItems, "error")
                + CountStatus(progressItems, "pending") = N
    /\ (~bulkApplying /\ ~cancelRef) => isComplete
    /\ bulkApplying =>
          CountStatus(progressItems, "success") + CountStatus(progressItems, "error")
                + CountStatus(progressItems, "pending") = N - 1

C8_Witness ==
    /\ tab = "assign" /\ N = 2 /\ ~bulkApplying /\ cancelRef
    /\ Status(1) = "success" /\ sent[1] = 1 /\ Status(2) = "pending"

\* C9: after a transport failure on item i that prevents further calls, no
\* request is issued for the items after i, and those items end as error.
C9_TransportFailureIsTerminal ==
    transportFailedAt # 0 =>
        \A j \in 1..N : j > transportFailedAt =>
            /\ sent[j] = 0
            /\ ~bulkApplying => Status(j) = "error"

\* C10: every remote call of a batch times out: a request that never gets a
\* response is eventually given up, and the batch eventually finishes.
C10_HungRequestTimesOut == (req = "hung") ~> (~bulkApplying)

\* a request for item j of a people batch is issued in this step
PeopleSends(j) == tab # "transfer" /\ j \in 1..Len(sent') /\
                  (IF ~showProgress /\ showProgress' THEN sent'[j] = 1 ELSE sent'[j] > sent[j])

\* a row's Apply button issues a request in this step
SingleSends == Len(singles') > Len(singles)

\* C11: a face that was created successfully for a person is never submitted
\* again in a create-faces request for that person, neither by the row's
\* Apply button nor by Apply Selected.
C11_CreatedFaceNotResubmitted ==
    [][tab = "create" =>
          /\ SingleSends =>
                \A f \in singles'[Len(singles')].faces :
                    <<singles'[Len(singles')].ms_person_id, f>> \notin created
          /\ \A j \in 1..Len(matchesToApply') :
                PeopleSends(j) =>
                    <<matchesToApply'[j].ms_person_id, matchesToApply'[j].faces[faceIdx']>>
                        \notin created']_vars

\* the faces selected for person p under the face selections fs
SelectedAt(fs, p) == IF fs[p] = Unset THEN FacesOf(p) ELSE fs[p]

\* C12: every assign request for a person carries only faces that are
\* selected for that person when it is sent, whether it comes from the row's
\* Apply button or from Apply Selected.
C12_OnlySelectedFacesSent ==
    [][tab = "assign" =>
          /\ SingleSends =>
                singles'[Len(singles')].faces
                    \subseteq SelectedAt(faceSelections, singles'[Len(singles')].ms_person_id)
          /\ \A j \in 1..Len(matchesToApply') :
                PeopleSends(j) =>
                    matchesToApply'[j].faces[faceIdx']
                        \in SelectedAt(faceSelections, matchesToApply'[j].ms_person_id)]_vars

\* C13: the threshold filter keeps a raw match if and only if its IoU is at
\* least I and its centre distance at most C, both bounds included, and it
\* keeps nothing else.
C13_FilterInclusive ==
    tab = "analytics" =>
        LET filt == analyticsFilteredMatches
            kept == {k \in 1..Len(rawMatches) :
                        rawMatches[k].iou >= pendingMinIoU
                        /\ rawMatches[k].center_dist <= pendingMaxCenterDist}
        IN  /\ \A k \in 1..Len(rawMatches) :
                  (\E j \in 1..Len(filt) : filt[j] = rawMatches[k]) <=> k \in kept
            /\ Len(filt) = Cardinality(kept)

\* one match exactly at both thresholds is kept, one below I and one above C
\* are dropped
C13_Witness ==
    /\ tab = "analytics" /\ Len(rawMatches) = 3 /\ pendingMinIoU = 40 /\ pendingMaxCenterDist = 40
    /\ rawMatches[1].iou = 40 /\ rawMatches[1].center_dist = 40
    /\ rawMatches[2].iou = 30 /\ rawMatches[2].center_dist = 40
    /\ rawMatches[3].iou = 40 /\ rawMatches[3].center_dist = 50
    /\ analyticsFilteredMatches = <<rawMatches[1]>>

\* the raw matches of a pair in a list, their number and the sum of their IoUs
MatchesOf(list, key) == SelectSeq(list, LAMBDA m : KeyOf(m) = key)
SumIoU(list) == SumSeq([k \in 1..Len(list) |-> list[k].iou])
PairKeys(list) == {KeyOf(list[k]) : k \in 1..Len(list)}

\* the confidence rule on count and the arithmetic mean sum / count
RuleClass(count, sum) ==
    IF count >= 5 /\ sum >= 40 * count THEN "high"
    ELSE IF count >= 2 /\ sum >= 35 * count THEN "medium"
    ELSE "low"

\* C14: the confidence breakdown counts the pairs by the rule high iff count
\* >= 5 and mean IoU >= 0.40, else medium iff count >= 2 and mean IoU >= 0.35,
\* else low; the three counts add up to the number of pairs and a pair with
\* count 1 is low.
C14_ConfidenceRule ==
    tab = "analytics" =>
        LET filt == analyticsFilteredMatches
            keys == PairKeys(filt)
            cls == [key \in keys |->
                      RuleClass(Len(MatchesOf(filt, key)), SumIoU(MatchesOf(filt, key)))]
            bd == BreakdownOf(AggregatedOf(filt))
        IN  /\ bd.high = Cardinality({key \in keys : cls[key] = "high"})
            /\ bd.medium = Cardinality({key \in keys : cls[key] = "medium"})
            /\ bd.low = Cardinality({key \in keys : cls[key] = "low"})
            /\ bd.high + bd.medium + bd.low = Cardinality(keys)
            /\ \A key \in keys : Len(MatchesOf(filt, key)) = 1 => cls[key] = "low"

C14_Witness ==
    /\ tab = "analytics" /\ confidenceBreakdown = [high |-> 1, medium |-> 0, low |-> 0]

\* C15: every aggregated pair carries the number of passing raw matches of its
\* (person, cluster) and the arithmetic mean of their IoUs, every pair with a
\* passing match is aggregated exactly once, whatever the order of the list.
C15_RunningMeanIsMean ==
    tab = "analytics" =>
        LET filt == analyticsFilteredMatches
            agg == AggregatedOf(filt)
        IN  /\ \A j \in 1..Len(agg) :
                  LET ms == MatchesOf(filt, agg[j].key)
                  IN  /\ agg[j].count = Len(ms)
                      /\ agg[j].avg_iou.num * Len(ms) = SumIoU(ms) * agg[j].avg_iou.den
            /\ \A key \in PairKeys(filt) :
                  Cardinality({j \in 1..Len(agg) : agg[j].key = key}) = 1
            /\ Len(agg) = Cardinality(PairKeys(filt))

C15_Witness ==
    /\ tab = "analytics" /\ Len(aggregatedMatches) = 2
    /\ aggregatedMatches[1].count = 3 /\ aggregatedMatches[1].avg_iou = [num |-> 100, den |-> 3]
    /\ rawMatches[1].iou = 30 /\ rawMatches[2].iou = 40
    /\ aggregatedMatches[2].count = 2 /\ aggregatedMatches[2].avg_iou = [num |-> 35, den |-> 1]

Reverse(q) == [k \in 1..Len(q) |-> q[Len(q) + 1 - k]]

KeysOf(agg) == [k \in 1..Len(agg) |-> agg[k].key]

KeyLess(a, b) == a[1] < b[1] \/ (a[1] = b[1] /\ a[2] < b[2])

\* C16: the same raw matches given in another list order (here: reversed)
\* aggregate to the same ordered list of pairs, and pairs of equal count are
\* ordered by their entity ids.
C16_OrderIndependent ==
    tab = "analytics" =>
        LET filt == analyticsFilteredMatches
            agg == AggregatedOf(filt)
        IN  /\ KeysOf(AggregatedOf(Reverse(filt))) = KeysOf(agg)
            /\ \A i, j \in 1..Len(agg) :
                  (i < j /\ agg[i].count = agg[j].count) => KeyLess(agg[i].key, agg[j].key)

\* a fetchAllData call is started, respectively ends in its catch block
FetchStarts == Len(fetches') > Len(fetches)
FetchFailed == Len(fetches') < Len(fetches) /\ lastFetch' = "failed"

\* raw matches, buckets, stats, active thresholds, lastRun and the applied
\* changes stay as they are
DataUnchanged ==
    /\ rawMatches' = rawMatches
    /\ clusterMatches' = clusterMatches
    /\ previews' = previews
    /\ validationIssues' = validationIssues
    /\ mergeCandidates' = mergeCandidates
    /\ stats' = stats
    /\ minIoU' = minIoU
    /\ maxCenterDist' = maxCenterDist
    /\ lastRun' = lastRun
    /\ appliedChanges' = appliedChanges

\* C17: an analysis request that fails sets the error field, returns loading
\* and algorithmRunning to false and leaves raw matches, buckets, stats,
\* active thresholds, lastRun and the applied-change sets untouched; starting
\* the request does not touch them either.
C17_FailedRunKeepsData ==
    [][/\ FetchFailed => (error' /\ ~loading' /\ ~algorithmRunning' /\ DataUnchanged)
       /\ FetchStarts => DataUnchanged]_vars

\* a re-run failed after a first good run: the data of the good run is there
C17_Witness ==
    /\ lastFetch = "failed" /\ error /\ ~loading /\ ~algorithmRunning /\ fetches = <<>>
    /\ lastRun = 1 /\ Len(rawMatches) = 1 /\ stats.dataset = 1 /\ mergedPeople = {1}

\* a Mark Done / Mark as Merged / Mark as Fixed click
MarkStep ==
    /\ tab \in {"merge", "fix"} /\ tab' = tab
    /\ Len(fetches') >= Len(fetches)
    /\ mergedPeople' # mergedPeople \/ fixedClusters' # fixedClusters

\* C18: marking merge candidates as merged or validation issues as fixed
\* issues no request and changes only mergedPeople, respectively
\* fixedClusters (and the selection): renamedClusters, assignedPeople, the
\* buckets and the thresholds stay as they are.
C18_MarkIsLocal ==
    [][MarkStep =>
          /\ fetches' = fetches /\ req' = req /\ singles' = singles
          /\ renamedClusters' = renamedClusters
          /\ appliedPeople' = appliedPeople
          /\ tab = "merge" => (fixedClusters' = fixedClusters /\ mergedPeople \subseteq mergedPeople')
          /\ tab = "fix" => (mergedPeople' = mergedPeople /\ fixedClusters \subseteq fixedClusters')
          /\ rawMatches' = rawMatches
          /\ clusterMatches' = clusterMatches
          /\ previews' = previews
          /\ validationIssues' = validationIssues
          /\ mergeCandidates' = mergeCandidates
          /\ stats' = stats
          /\ thresholdVars' = thresholdVars
          /\ storedThresholds' = storedThresholds]_vars

C18_Witness ==
    /\ tab = "merge" /\ lastRun = 1 /\ mergedPeople = {1} /\ fixedClusters = {1}
    /\ selectedIds = {} /\ fetches = <<>>

\* applySelected is clicked: the progress modal opens
BatchStarts == ~showProgress /\ showProgress'

\* the progress modal of a batch that is over is closed (Done / X)
ClosedAfterEnd == showProgress /\ ~bulkApplying /\ ~showProgress'

NoItemPending == \A k \in 1..Len(progressItems) : progressItems[k].status # "pending"

\* C19: no batch state carries over.  A new batch starts with the cancel
\* flag cleared and takes up its first item, whatever flag the batch before
\* left behind; while a batch runs the flag is set only by a cancel raised
\* in that batch; a batch nobody cancelled leaves no item pending; closing
\* the modal of a finished batch does not touch the flag.
C19_NoCarryOver ==
    /\ [][BatchStarts => (~cancelRef' /\ cancelledAt' = 0
                          /\ progressItems'[1].status # "pending")]_vars
    /\ [][ClosedAfterEnd => cancelRef' = cancelRef]_vars
    /\ [](bulkApplying /\ cancelledAt = 0 => ~cancelRef)
    /\ [](~bulkApplying /\ cancelledAt = 0 => NoItemPending)

\* a rename batch of two items that found the flag of a cancelled batch set
\* has cleared it and sent the request of its first item
C19_Witness ==
    /\ tab = "transfer" /\ flagAtStart /\ ~cancelRef /\ bulkApplying /\ cancelledAt = 0
    /\ Len(progressItems) = 2 /\ progressItems[1].status = "processing"
    /\ req = "sent" /\ sent = <<1, 0>> /\ resolved = <<0, 0>>

\* the entry was applicable when the last analysis came back
WasApplicable(m) == m.immich_cluster_name = NoName

SamePair(m, n) ==
    m.ms_person_id = n.ms_person_id /\ m.immich_cluster_id = n.immich_cluster_id

\* every applicable entry has been applied, and had been when the run f was
\* requested
AllApplied(f) ==
    \A k \in 1..Len(clusterMatches) :
        WasApplicable(clusterMatches[k]) =>
            /\ clusterMatches[k].immich_cluster_id \in renamedClusters
            /\ f.names[clusterMatches[k].immich_cluster_id] # NoName

\* C20: when every applicable rename entry has been applied and the analysis
\* is then run again with the same thresholds, no entry that was applicable
\* before is applicable in the new bundle.
C20_AppliedNotApplicableAfterRerun ==
    [][\A i \in 1..Len(fetches) :
          (/\ fetches' = RemoveAt(fetches, i) /\ lastFetch' = "ok"
           /\ fetches[i].isInitialRun
           /\ fetches[i].min_iou = minIoU /\ fetches[i].max_center_dist = maxCenterDist
           /\ AllApplied(fetches[i]))
          => \A k \in 1..Len(clusterMatches), j \in 1..Len(clusterMatches') :
                (WasApplicable(clusterMatches[k]) /\ SamePair(clusterMatches[k], clusterMatches'[j]))
                => ~(/\ clusterMatches'[j].immich_cluster_name = NoName
                     /\ clusterMatches'[j].immich_cluster_id \notin renamedClusters')]_vars

\* a batch of two renames ran to its end, the analysis ran again, and the
\* Transfer Names tab shows both clusters under their new names
C20_Witness ==
    /\ tab = "transfer" /\ lastRun = 2 /\ renamedClusters = {} /\ lastFetch = "ok"
    /\ resolved = <<1, 1>> /\ cancelledAt = 0 /\ successReports = [c \in Clusters |-> 1]
    /\ Len(clusterMatches) = 2
    /\ \A k \in 1..2 : clusterMatches[k].immich_cluster_name \in Persons
    /\ filteredMatches = <<>>

\* a settled fetchAllData call: the i-th call in flight leaves with a success
Succeeded(i) == lastFetch' = "ok" /\ fetches' = RemoveAt(MarkOlder(fetches, i), i)

\* C22: an id marked before or while an applyThresholds request is in flight
\* is still in its set when the request has completed.
C22_MarksSurviveApplyThresholds ==
    [][\A i \in 1..Len(fetches) :
          (Succeeded(i) /\ ~fetches[i].isInitialRun) =>
              /\ renamedClusters \subseteq renamedClusters'
              /\ appliedPeople \subseteq appliedPeople'
              /\ mergedPeople \subseteq mergedPeople'
              /\ fixedClusters \subseteq fixedClusters']_vars

\* C24: of two overlapping analysis requests the one issued last decides the
\* state shown: a response of a call issued before a call that has already
\* filled the state is not applied.
C24_LastIssuedWins ==
    [][\A i \in 1..Len(fetches) : Succeeded(i) => ~fetches[i].stale]_vars

\* C26: thresholdsDirty is true exactly when a slider value differs from its
\* active threshold.
C26_DirtyIffDiffers ==
    thresholdsDirty <=> (pendingMinIoU # minIoU \/ pendingMaxCenterDist # maxCenterDist)

\* after a failed request the IoU slider was moved: it differs from the active
\* threshold, the other slider does not
C26_Witness ==
    /\ thresholdsDirty /\ lastFetch = "failed" /\ lastRun = 1
    /\ pendingMinIoU # minIoU /\ pendingMaxCenterDist = maxCenterDist

\* loadThresholds() of a reload
LoadedThresholds ==
    IF storedThresholds = NoStored
    THEN [minIoU |-> DefaultMinIoU, maxCenterDist |-> DefaultMaxCenterDist]
    ELSE storedThresholds

\* C27: once an analysis request has completed, the thresholds a reload
\* would load from localStorage are the active thresholds.
C27_StoredEqualsActive ==
    (lastFetch # "none" /\ fetches = <<>>) =>
        LoadedThresholds = [minIoU |-> minIoU, maxCenterDist |-> maxCenterDist]

\* C28: the active thresholds are those of the request whose response filled
\* the buckets shown, and they change only together with the buckets, in the
\* success path of a request.
C28_ActiveThresholdsOfData ==
    /\ [](stats # NoStats => (stats.min_iou = minIoU /\ stats.max_center_dist = maxCenterDist))
    /\ [][(minIoU' # minIoU \/ maxCenterDist' # maxCenterDist) =>
             (lastFetch' = "ok" /\ Len(fetches') < Len(fetches)
              /\ stats'.min_iou = minIoU' /\ stats'.max_center_dist = maxCenterDist')]_vars

\* thresholds other than the defaults were applied, then a slider was moved
C28_Witness ==
    /\ lastFetch = "ok" /\ fetches = <<>> /\ stats.min_iou = 40 /\ minIoU = 40
    /\ stats.max_center_dist = 50 /\ maxCenterDist = 50
    /\ pendingMinIoU = 30 /\ thresholdsDirty

\* Scenario D: a cluster of two faces, one matched to a face of Dave (1) and
\* one to a face of Eve (2), no other person
ScenarioD ==
    /\ issue.total = 2
    /\ issue.counts[1] = 1 /\ issue.counts[2] = 1
    /\ \A p \in Persons : p > 2 => issue.counts[p] = 0
    /\ issue.severity # "none"

InFlight == (IF req # "none" THEN 1 ELSE 0) + Len(singles)

\* C23: at most one apply request is in flight at any time: while the item of
\* a batch is awaited (also after Cancel closed the progress modal) no
\* applySingle request is awaited, and no batch starts while an applySingle
\* request is awaited.
C23_OneApplyInFlight == InFlight <= 1


\* ---------------------------------------------------------------- C25
\* the batch records a person as assigned in this step
BatchAssigns(o) == tab = "assign" /\ PeopleResume(o) /\ appliedPeople' # appliedPeople

\* every face selected for the person of the current item went through: the
\* last face is the one that just succeeded and no earlier one failed
AllFacesAssigned(o) ==
    LET n == Len(matchesToApply[progressIndex].faces)
    IN  FaceSucceeded(o) /\ faceIdx = n /\ successCount = n - 1

\* C25: a batch of AssignFaces adds a person to assignedPeople only if every
\* face selected for that person was assigned successfully.
C25_AssignedOnlyIfAll ==
    [][\A o \in FaceOutcomes : BatchAssigns(o) => AllFacesAssigned(o)]_vars


\* ---------------------------------------------------------------- C29
\* C29: for every normalized rectangle with 0 <= x1 <= x2 <= 1 and
\* 0 <= y1 <= y2 <= 1 and every image size, the pixel rectangle of the
\* create-face item lies inside the image.
C29_PixelsInsideImage ==
    pixels # NoPixels =>
        /\ pixels.x >= 0 /\ pixels.y >= 0
        /\ pixels.x + pixels.width <= face.image_width
        /\ pixels.y + pixels.height <= face.image_height


\* ---------------------------------------------------------------- C30
\* C30: in the photo viewer, whenever the face list is non-empty the current
\* index satisfies 0 <= currentIndex <= length - 1, after any sequence of
\* ArrowLeft / ArrowRight key presses, sort changes and data loads.
C30_IndexInRange ==
    (viewer.open /\ viewer.length > 0) =>
        (0 <= viewer.currentIndex /\ viewer.currentIndex <= viewer.length - 1)

====
